---- MODULE Spec2Model ----
(***************************************************************************)
(* The recommendation engine of model/recommenders.py: the popularity,     *)
(* content-based and collaborative recommenders and the hybrid fusion that  *)
(* combines them, as constructed at start-up by app.py.                     *)
(*                                                                          *)
(* Numbers.  Every quantity the code holds in a float is kept here as an    *)
(* exact rational (scaled to an integer, or compared by cross               *)
(* multiplication).  Where float rounding can order two values that are     *)
(* equal as rationals (the fused scores of the hybrid), the order of the    *)
(* tied entries is left open: every order is a behaviour of the model.      *)
(* Rows are numbered from 1 (pandas numbers them from 0).                   *)
(***************************************************************************)
EXTENDS Integers, Sequences, FiniteSets, TLC

\* ------------------------------------------------------------------ bounds
MaxMovies == 3
MaxSeeds == 1
MaxN == 2

\* userIds that occur in the rating table, and the ids a request may carry
\* (user 3 never rated anything: a cold-start user).
Raters == {1, 2}
Requesters == {1, 2, 3}

TitleNames == <<"t1", "t2", "t3", "t4", "t5", "t6", "t7", "t8">>
UnknownTitle == "unknown"
Genres == {"Action", "Drama"}

\* ------------------------------------------------------------------ helpers
Min(a, b) == IF a <= b THEN a ELSE b

Range(s) == {s[i] : i \in 1..Len(s)}

Head_n(s, n) == SubSeq(s, 1, Min(n, Len(s)))

RECURSIVE SumOver(_, _)
SumOver(S, f) ==
    IF S = {} THEN 0
    ELSE LET x == CHOOSE y \in S : TRUE IN f[x] + SumOver(S \ {x}, f)

RECURSIVE Factorial(_)
Factorial(k) == IF k <= 1 THEN 1 ELSE k * Factorial(k - 1)

\* Every enumeration of S in which a smaller rk comes first; entries with the
\* same rk come in every order.
RECURSIVE SortedOrders(_, _)
SortedOrders(S, rk) ==
    IF S = {} THEN {<<>>}
    ELSE LET best == {x \in S : \A y \in S : rk[x] <= rk[y]}
         IN UNION {{<<x>> \o s : s \in SortedOrders(S \ {x}, rk)} : x \in best}

\* The enumeration of the integers S in which a smaller rk comes first and
\* entries with the same rk keep their order (a stable sort).
RECURSIVE StableOrder(_, _)
StableOrder(S, rk) ==
    IF S = {} THEN <<>>
    ELSE LET best == {x \in S : \A y \in S : rk[x] <= rk[y]}
             x == CHOOSE y \in best : \A z \in best : y <= z
         IN <<x>> \o StableOrder(S \ {x}, rk)

\* ------------------------------------------------------------------ input tables
MovieIdOf(i) == 10 + i

RowOfId(mid) == mid - 10

\* movies_df: row i has movieId, title and a one-word genre.  The first g
\* rows are Action, the others Drama.  label is the row's entry in the
\* frame's index: read_csv numbers the rows in order.  year is a float that
\* is NaN where the file has N/A; avg_rating is in tenths.
Catalog(K, g) ==
    [i \in 1..K |-> [label |-> i, movieId |-> MovieIdOf(i), title |-> TitleNames[i],
                     genre |-> IF i <= g THEN "Action" ELSE "Drama",
                     year |-> [nan |-> FALSE, v |-> 2000],
                     avg_rating |-> 45 - 10 * (i % 2)]]

\* The row labels a frame handed to a recommender can carry: those of
\* read_csv; those of a frame whose first row was dropped by a selection;
\* those of a frame sorted into the reverse order.
Labellings(K) ==
    {[i \in 1..K |-> i], [i \in 1..K |-> i + 1], [i \in 1..K |-> K + 1 - i]}

Relabel(movies, labels) == [i \in 1..Len(movies) |-> [movies[i] EXCEPT !.label = labels[i]]]

\* A catalog with rows that have no genre: the first g rows are Action, the
\* rows up to d Drama, the others have the empty string (or NaN, which
\* _train_model fills with it).
CatalogWithBlanks(K, g, d) ==
    [i \in 1..K |-> [label |-> i, movieId |-> MovieIdOf(i), title |-> TitleNames[i],
                     genre |-> IF i <= g THEN "Action" ELSE IF i <= d THEN "Drama" ELSE "",
                     year |-> [nan |-> FALSE, v |-> 2000],
                     avg_rating |-> 45 - 10 * (i % 2)]]

\* ratings_df as one value per (userId, movieId): 0 is "no row", otherwise the
\* rating of the single row.  User 1 rates the first b rows, the first a of
\* them 5, 4, 5, 4, ... and the others 3, 2, 3, 2, ...; user 2 rates the rows
\* from c on 5.
RatingTable(K, a, b, c) ==
    [u \in Raters |-> [mid \in {MovieIdOf(i) : i \in 1..K} |->
        LET i == RowOfId(mid) IN
        IF u = 1 THEN (IF i <= a THEN 5 - ((i - 1) % 2)
                       ELSE IF i <= b THEN 3 - ((i - 1) % 2) ELSE 0)
        ELSE (IF i >= c THEN 5 ELSE 0)]]

\* A rating table of three users in two blocks: user 1 rates the first b rows
\* as in RatingTable, users 2 and 3 both rate every other row, each of them
\* 5, 3, 5, 3, ... down these rows.
RatingBlocks(K, a, b) ==
    [u \in {1, 2, 3} |-> [mid \in {MovieIdOf(i) : i \in 1..K} |->
        LET i == RowOfId(mid) IN
        IF u = 1 THEN (IF i > b THEN 0 ELSE IF i <= a THEN 5 - ((i - 1) % 2) ELSE 3 - ((i - 1) % 2))
        ELSE (IF i <= b THEN 0 ELSE 5 - 2 * ((i - b - 1) % 2))]]

\* A rating table whose rows all name a movie that is not in the catalog.
ForeignRatings == [u \in Raters |-> [mid \in {MovieIdOf(0)} |-> 5]]

\* The rating of the (userId, movieId) row, 0 when there is no such row.
RatingOf(ratings, u, mid) == IF mid \in DOMAIN ratings[u] THEN ratings[u][mid] ELSE 0

UserRatings(ratings, user_id) ==
    IF user_id \in DOMAIN ratings
    THEN {mid \in DOMAIN ratings[user_id] : ratings[user_id][mid] # 0}
    ELSE {}

\* ------------------------------------------------------------------ PopularityRecommender
VoteCount(ratings, mid) == Cardinality({u \in DOMAIN ratings : RatingOf(ratings, u, mid) # 0})

VoteSum(ratings, mid) ==
    SumOver(DOMAIN ratings, [u \in DOMAIN ratings |-> RatingOf(ratings, u, mid)])

\* The rows of the left merge whose vote_count is not NaN.
RatedRows(movies, ratings) ==
    {i \in 1..Len(movies) : VoteCount(ratings, movies[i].movieId) > 0}

\* j-th smallest vote_count of the rated rows (j from 1).
KthCount(movies, ratings, j) ==
    LET R == RatedRows(movies, ratings)
        cnt(i) == VoteCount(ratings, movies[i].movieId)
    IN CHOOSE c \in 1..Cardinality(DOMAIN ratings) :
         /\ Cardinality({i \in R : cnt(i) <= c}) >= j
         /\ Cardinality({i \in R : cnt(i) < c}) < j

\* m = vote_count.quantile(0.9), in tenths (linear interpolation between the
\* two order statistics around position 0.9 * (k - 1)).  Without a rated row
\* m is NaN: no comparison with it holds and its value here is never used.
QuantileTenths(movies, ratings) ==
    LET k == Cardinality(RatedRows(movies, ratings))
        pos == 9 * (k - 1)
        lo == pos \div 10
        lower == KthCount(movies, ratings, lo + 1)
        upper == KthCount(movies, ratings, Min(lo + 2, k))
    IN IF k = 0 THEN 0 ELSE 10 * lower + (pos % 10) * (upper - lower)

\* C = vote_average.mean() as the fraction MeanNum / MeanDen.
MeanNum(movies, ratings) ==
    LET L == Factorial(Cardinality(DOMAIN ratings))
        R == RatedRows(movies, ratings)
    IN SumOver(R, [i \in R |-> VoteSum(ratings, movies[i].movieId)
                                * (L \div VoteCount(ratings, movies[i].movieId))])

MeanDen(movies, ratings) ==
    Factorial(Cardinality(DOMAIN ratings)) * Cardinality(RatedRows(movies, ratings))

\* Mutant: a NaN threshold lets every row of the merge through.
Qualified_NaNPasses(movies, ratings) ==
    IF RatedRows(movies, ratings) = {} THEN 1..Len(movies)
    ELSE {i \in RatedRows(movies, ratings) :
            10 * VoteCount(ratings, movies[i].movieId) >= QuantileTenths(movies, ratings)}

\* Mutant: the vote_count >= m filter is left out.
Qualified_Rated(movies, ratings) == RatedRows(movies, ratings)

\* Mutant: the filter is vote_count > m.
Qualified_Strict(movies, ratings) ==
    {i \in RatedRows(movies, ratings) :
        10 * VoteCount(ratings, movies[i].movieId) > QuantileTenths(movies, ratings)}

Qualified(movies, ratings) ==
    {i \in RatedRows(movies, ratings) :
        10 * VoteCount(ratings, movies[i].movieId) >= QuantileTenths(movies, ratings)}

\* Mutant: the average term is subtracted, (m/(v+m))C - (v/(v+m))R.
ScoreNum_AverageSubtracted(movies, ratings, i) ==
    QuantileTenths(movies, ratings) * MeanNum(movies, ratings)
      - 10 * MeanDen(movies, ratings) * VoteSum(ratings, movies[i].movieId)

\* weighted_rating as the fraction ScoreNum / ScoreDen:
\* (v/(v+m))R + (m/(v+m))C = (v R + m C) / (v + m).
ScoreNum(movies, ratings, i) ==
    10 * MeanDen(movies, ratings) * VoteSum(ratings, movies[i].movieId)
      + QuantileTenths(movies, ratings) * MeanNum(movies, ratings)

ScoreDen(movies, ratings, i) ==
    MeanDen(movies, ratings)
      * (10 * VoteCount(ratings, movies[i].movieId) + QuantileTenths(movies, ratings))

ScoreGreater(movies, ratings, i, j) ==
    ScoreNum(movies, ratings, i) * ScoreDen(movies, ratings, j)
      > ScoreNum(movies, ratings, j) * ScoreDen(movies, ratings, i)

PopRow(movies, ratings, i) ==
    [movieId |-> movies[i].movieId, title |-> movies[i].title, genre |-> movies[i].genre,
     vote_count |-> VoteCount(ratings, movies[i].movieId),
     vote_sum |-> VoteSum(ratings, movies[i].movieId),
     score_num |-> ScoreNum(movies, ratings, i),
     score_den |-> ScoreDen(movies, ratings, i)]

\* The tables _train_model can leave in popularity_df: the qualified rows in
\* descending score.  sort_values runs numpy's default (not stable) sort, so
\* rows of equal score come in any order.
PopTrainOutcomes(movies, ratings) ==
    LET Q == Qualified(movies, ratings)
        rk == [i \in Q |-> Cardinality({j \in Q : ScoreGreater(movies, ratings, j, i)})]
    IN {[p \in 1..Len(o) |-> PopRow(movies, ratings, o[p])] : o \in SortedOrders(Q, rk)}

\* PopularityRecommender(movies_df, ratings_df): no step of _train_model
\* raises on an empty selection (apply over the rows of an empty frame gives
\* an empty Series); tables are the values it can leave in popularity_df.
PopularityTrain(movies, ratings) ==
    [raised |-> FALSE, tables |-> PopTrainOutcomes(movies, ratings)]

\* Mutant: tail(n) instead of head(n).
PopularityRecommend_Tail(popularity_df, n) ==
    LET k == Min(n, Len(popularity_df))
    IN [p \in 1..k |-> popularity_df[Len(popularity_df) - k + p].title]

PopularityRecommend(popularity_df, n) ==
    IF popularity_df = <<>> THEN <<>>
    ELSE [p \in 1..Min(n, Len(popularity_df)) |-> popularity_df[p].title]

\* Mutant: recommend sorts the table in place by title before it reads it.
PopTableAfterRecommend_Resort(popularity_df, n) ==
    LET P == 1..Len(popularity_df)
        o == StableOrder(P, [p \in P |-> 0 - popularity_df[p].movieId])
    IN [p \in P |-> popularity_df[o[p]]]

\* Mutant: recommend takes the rows it returns out of the table.
PopTableAfterRecommend_Consume(popularity_df, n) ==
    SubSeq(popularity_df, Min(n, Len(popularity_df)) + 1, Len(popularity_df))

\* recommend reads popularity_df and assigns nothing.
PopTableAfterRecommend(popularity_df, n) == popularity_df

\* ------------------------------------------------------------------ ContentBasedRecommender
\* content_soup of a row: the genre column (the catalog has no overview).
Soup(row) == row.genre

\* The terms TfidfVectorizer(stop_words='english') takes from a document: words
\* of two or more characters that are no stop words.  A genre is one such
\* word; "" has no word and "a" is a single character (and a stop word).
Tokens(doc) == IF doc \in {"", "a"} THEN {} ELSE {doc}

\* linear_kernel of the TF-IDF rows.  The soup of a row is its one-word
\* genre, so a row is the unit vector of its genre, or the zero vector when
\* the soup is empty: the similarity of two rows is exactly 1.0 when they
\* share their term and 0.0 otherwise.
CosineSim(movies) ==
    [i \in 1..Len(movies) |-> [j \in 1..Len(movies) |->
        IF Tokens(Soup(movies[i])) \cap Tokens(Soup(movies[j])) # {} THEN 1 ELSE 0]]

\* indices = pd.Series(movies_df.index, index=movies_df['title']): title ->
\* label of the title's row.
TitleIndex(movies) ==
    [t \in {movies[i].title : i \in 1..Len(movies)} |->
        movies[CHOOSE i \in 1..Len(movies) : movies[i].title = t].label]

\* self.movies_df after _train_model: the copy __init__ took of the caller's
\* frame, its genre column filled ('' for NaN) and the column content_soup
\* added.
ContentFrame(movies) ==
    [i \in 1..Len(movies) |->
        [label |-> movies[i].label, movieId |-> movies[i].movieId, title |-> movies[i].title,
         genre |-> movies[i].genre, year |-> movies[i].year,
         avg_rating |-> movies[i].avg_rating, content_soup |-> Soup(movies[i])]]

\* Mutant: __init__ keeps the caller's frame (no copy), so the column is
\* added to it.
CallerFrameAfterContentTrain_NoCopy(movies) == ContentFrame(movies)

\* The caller's frame after ContentBasedRecommender(movies_df): every
\* assignment of _train_model goes to the copy.
CallerFrameAfterContentTrain(movies) == movies

\* ContentBasedRecommender(movies_df): fit_transform raises ValueError (empty
\* vocabulary) when no document has a term; when every soup is empty the
\* documents are ['a'] * len(movies_df).
ContentTrain(movies) ==
    LET N == Len(movies)
        blank == \A i \in 1..N : Soup(movies[i]) = ""
        corpus == [i \in 1..N |-> IF blank THEN "a" ELSE Soup(movies[i])]
        vocabulary == UNION {Tokens(corpus[i]) : i \in 1..N}
    IN [raised |-> (vocabulary = {}),
        movies_df |-> ContentFrame(movies),
        cosine_sim |-> CosineSim(movies),
        indices |-> TitleIndex(movies)]

\* Mutant: a title that is not in indices resolves to the first row.
ValidIndices_DefaultRow(indices, titles) ==
    [p \in 1..Len(titles) |-> IF titles[p] \in DOMAIN indices THEN indices[titles[p]] ELSE 1]

\* The rows of the titles that resolve, in the order given, repeats kept.
ValidIndices(indices, titles) ==
    LET known == SelectSeq(titles, LAMBDA t : t \in DOMAIN indices)
    IN [p \in 1..Len(known) |-> indices[known[p]]]

\* The loops of the content and hybrid recommenders append an entry and then
\* leave when len >= n: the first n entries for n >= 1.
LoopTake(s, n) == Head_n(s, IF n < 1 THEN 1 ELSE n)

\* cosine_sim[valid_indices] takes rows by position: IndexError when an
\* entry of valid_indices is no position of the matrix.
ContentRaises(movies, indices, titles) ==
    \E idx \in Range(ValidIndices(indices, titles)) : idx \notin 1..Len(movies)

\* Mutant: the input rows stay in the ranking.
ContentRecommend_KeepSeeds(movies, cosine_sim, indices, titles, n) ==
    LET valid_indices == ValidIndices(indices, titles)
        profile == [j \in 1..Len(movies) |->
                      SumOver(1..Len(valid_indices),
                              [p \in 1..Len(valid_indices) |-> cosine_sim[valid_indices[p]][j]])]
        sim_scores == StableOrder(1..Len(movies), [j \in 1..Len(movies) |-> 0 - profile[j]])
        final_indices == LoopTake(sim_scores, n)
    IN IF valid_indices = <<>> THEN <<>>
       ELSE [p \in 1..Len(final_indices) |-> movies[final_indices[p]].title]

\* Mutant: the similarity scores are not sorted (the rows stay in catalog order).
ContentRecommend_Unsorted(movies, cosine_sim, indices, titles, n) ==
    LET valid_indices == ValidIndices(indices, titles)
        sim_scores == [j \in 1..Len(movies) |-> j]
        final_indices == LoopTake(SelectSeq(sim_scores, LAMBDA i : i \notin Range(valid_indices)), n)
    IN IF valid_indices = <<>> THEN <<>>
       ELSE [p \in 1..Len(final_indices) |-> movies[final_indices[p]].title]

ContentRecommend(movies, cosine_sim, indices, titles, n) ==
    LET valid_indices == ValidIndices(indices, titles)
        \* user_profile times len(valid_indices)
        profile == [j \in 1..Len(movies) |->
                      SumOver(1..Len(valid_indices),
                              [p \in 1..Len(valid_indices) |-> cosine_sim[valid_indices[p]][j]])]
        sim_scores == StableOrder(1..Len(movies), [j \in 1..Len(movies) |-> 0 - profile[j]])
        final_indices == LoopTake(SelectSeq(sim_scores, LAMBDA i : i \notin Range(valid_indices)), n)
    IN IF valid_indices = <<>> \/ ContentRaises(movies, indices, titles) THEN <<>>
       ELSE [p \in 1..Len(final_indices) |-> movies[final_indices[p]].title]

\* ------------------------------------------------------------------ CollaborativeRecommender
\* A float that may be NaN.
FNum(x) == [nan |-> FALSE, v |-> x]

FNaN == [nan |-> TRUE, v |-> 0]

FAdd(x, y) == IF x.nan \/ y.nan THEN FNaN ELSE FNum(x.v + y.v)

RECURSIVE FSum(_, _)
FSum(S, f) ==
    IF S = {} THEN FNum(0)
    ELSE LET x == CHOOSE y \in S : TRUE IN FAdd(f[x], FSum(S \ {x}, f))

\* movie_user_matrix.index: the rated movieIds in ascending order.
PivotIndex(ratings) ==
    LET ids == {mid \in UNION {DOMAIN ratings[u] : u \in DOMAIN ratings} :
                   \E u \in DOMAIN ratings : ratings[u][mid] # 0}
    IN StableOrder(ids, [mid \in ids |-> mid])

\* The columns of the pivot: the users with at least one rating.
PivotUsers(ratings) == {u \in DOMAIN ratings : UserRatings(ratings, u) # {}}

NComponents(ratings) == Min(20, Cardinality(PivotUsers(ratings)) - 1)

\* The users with a rating of the movie: its non-zero columns in the pivot.
RatersOf(ratings, mid) == {u \in DOMAIN ratings : RatingOf(ratings, u, mid) # 0}

\* Squared norm of a user's column of the pivot.
ColumnNorm2(ratings, u) ==
    SumOver(DOMAIN ratings[u], [mid \in DOMAIN ratings[u] |-> ratings[u][mid] * ratings[u][mid]])

\* np.corrcoef(matrix_reduced).
\* n_components = 1: every row of matrix_reduced is a single observation, its
\* variance is 0/0, and every entry of the result is NaN.
\* n_components = 2 on a table of RatingBlocks: the pivot has the singular
\* directions e1 and (e2 + e3)/sqrt(2) with distinct singular values; a row of
\* matrix_reduced is (x, 0) for a movie of one block and (0, y) for a movie of
\* the other, x, y > 0 by svd_flip, up to rounding; two rows of two
\* observations correlate +1 when they are of the same block and -1 otherwise.
\* With a single rated movie the result is a 0-d value that cannot be indexed.
\* noise is the order rounding gives to sums of entries that are equal as
\* rationals (the order of the rows when the entries are NaN).
CorrMatrix(ratings) ==
    LET ids == PivotIndex(ratings)
        N == Len(ids)
    IN [scalar |-> (N = 1),
        m |-> [i \in 1..N |-> [j \in 1..N |->
                 IF NComponents(ratings) = 1 THEN FNaN
                 ELSE IF RatersOf(ratings, ids[i]) = RatersOf(ratings, ids[j])
                      THEN FNum(1) ELSE FNum(0 - 1)]],
        noise |-> [i \in 1..N |-> i]]

\* The matrices training can leave in corr_matrix: entries that are not NaN
\* carry rounding errors, which order equal sums in any way.
CorrTrainOutcomes(ratings) ==
    LET c == CorrMatrix(ratings)
        P == 1..Len(PivotIndex(ratings))
    IN IF NComponents(ratings) = 1 THEN {c}
       ELSE {[c EXCEPT !.noise = o] : o \in SortedOrders(P, [i \in P |-> 0])}

\* CollaborativeRecommender(movies_df, ratings_df): TruncatedSVD rejects
\* n_components < 1 (InvalidParameterError) in fit_transform.
CollaborativeTrain(ratings) ==
    [raised |-> (NComponents(ratings) < 1),
     movie_ids |-> PivotIndex(ratings),
     corrs |-> CorrTrainOutcomes(ratings)]

\* Mutant: the rows are not filtered by userId, so a user without ratings is
\* served from the ratings of the others.
CollaborativeRecommend_AnyUser(movies, ratings, movie_ids, corr_matrix, user_id, n) ==
    LET user_ratings == {movie_ids[i] : i \in 1..Len(movie_ids)}
        liked == {mid \in user_ratings : \A u \in DOMAIN ratings : ratings[u][mid] \in {0, 4, 5}}
        high_rated_movies == IF liked = {} THEN user_ratings ELSE liked
        targets == {i \in 1..Len(movie_ids) : movie_ids[i] \notin high_rated_movies}
        top == {movie_ids[i] : i \in {j \in targets : Cardinality({h \in targets : h < j}) < n}}
        rows == SelectSeq([i \in 1..Len(movies) |-> i], LAMBDA i : movies[i].movieId \in top)
    IN [raised |-> FALSE, recs |-> [p \in 1..Len(rows) |-> movies[rows[p]].title]]

\* Mutant: only a rating of 5 counts as high.
CollaborativeRecommend_Threshold5(movies, ratings, movie_ids, corr_matrix, user_id, n) ==
    LET user_ratings == UserRatings(ratings, user_id)
        liked == {mid \in user_ratings : ratings[user_id][mid] >= 5}
        high_rated_movies == IF liked = {} THEN user_ratings ELSE liked
        seeds == {i \in 1..Len(movie_ids) : movie_ids[i] \in high_rated_movies}
        targets == {i \in 1..Len(movie_ids) : movie_ids[i] \notin high_rated_movies}
        similar_movies_scores ==
            [i \in targets |-> FSum(seeds, [s \in seeds |-> corr_matrix.m[s][i]])]
        noise_pos == [i \in targets |->
                         CHOOSE p \in 1..Len(movie_ids) : corr_matrix.noise[p] = i]
        \* sorted(..., reverse=True): descending and stable; a comparison with
        \* NaN is false, so entries that are all NaN keep their order.
        sorted_scores ==
            StableOrder(targets, [i \in targets |->
                IF similar_movies_scores[i].nan THEN noise_pos[i]
                ELSE (0 - similar_movies_scores[i].v) * (Len(movie_ids) + 1) + noise_pos[i]])
        top_movie_ids == {movie_ids[sorted_scores[p]] : p \in 1..Min(n, Len(sorted_scores))}
        rows == SelectSeq([i \in 1..Len(movies) |-> i],
                          LAMBDA i : movies[i].movieId \in top_movie_ids)
    IN IF user_ratings = {} THEN [raised |-> FALSE, recs |-> <<>>]
       ELSE IF seeds # {} /\ corr_matrix.scalar THEN [raised |-> TRUE, recs |-> <<>>]
       ELSE [raised |-> FALSE, recs |-> [p \in 1..Len(rows) |-> movies[rows[p]].title]]

\* Mutant: the seeds get a score as every other movie does.
CollaborativeRecommend_SeedsScored(movies, ratings, movie_ids, corr_matrix, user_id, n) ==
    LET user_ratings == UserRatings(ratings, user_id)
        liked == {mid \in user_ratings : ratings[user_id][mid] >= 4}
        high_rated_movies == IF liked = {} THEN user_ratings ELSE liked
        seeds == {i \in 1..Len(movie_ids) : movie_ids[i] \in high_rated_movies}
        targets == {i \in 1..Len(movie_ids) : TRUE}
        similar_movies_scores ==
            [i \in targets |-> FSum(seeds, [s \in seeds |-> corr_matrix.m[s][i]])]
        noise_pos == [i \in targets |->
                         CHOOSE p \in 1..Len(movie_ids) : corr_matrix.noise[p] = i]
        \* sorted(..., reverse=True): descending and stable; a comparison with
        \* NaN is false, so entries that are all NaN keep their order.
        sorted_scores ==
            StableOrder(targets, [i \in targets |->
                IF similar_movies_scores[i].nan THEN noise_pos[i]
                ELSE (0 - similar_movies_scores[i].v) * (Len(movie_ids) + 1) + noise_pos[i]])
        top_movie_ids == {movie_ids[sorted_scores[p]] : p \in 1..Min(n, Len(sorted_scores))}
        rows == SelectSeq([i \in 1..Len(movies) |-> i],
                          LAMBDA i : movies[i].movieId \in top_movie_ids)
    IN IF user_ratings = {} THEN [raised |-> FALSE, recs |-> <<>>]
       ELSE IF seeds # {} /\ corr_matrix.scalar THEN [raised |-> TRUE, recs |-> <<>>]
       ELSE [raised |-> FALSE, recs |-> [p \in 1..Len(rows) |-> movies[rows[p]].title]]

\* [raised, recs] of CollaborativeRecommender.recommend.
CollaborativeRecommend(movies, ratings, movie_ids, corr_matrix, user_id, n) ==
    LET user_ratings == UserRatings(ratings, user_id)
        liked == {mid \in user_ratings : ratings[user_id][mid] >= 4}
        high_rated_movies == IF liked = {} THEN user_ratings ELSE liked
        seeds == {i \in 1..Len(movie_ids) : movie_ids[i] \in high_rated_movies}
        targets == {i \in 1..Len(movie_ids) : movie_ids[i] \notin high_rated_movies}
        similar_movies_scores ==
            [i \in targets |-> FSum(seeds, [s \in seeds |-> corr_matrix.m[s][i]])]
        noise_pos == [i \in targets |->
                         CHOOSE p \in 1..Len(movie_ids) : corr_matrix.noise[p] = i]
        \* sorted(..., reverse=True): descending and stable; a comparison with
        \* NaN is false, so entries that are all NaN keep their order.
        sorted_scores ==
            StableOrder(targets, [i \in targets |->
                IF similar_movies_scores[i].nan THEN noise_pos[i]
                ELSE (0 - similar_movies_scores[i].v) * (Len(movie_ids) + 1) + noise_pos[i]])
        top_movie_ids == {movie_ids[sorted_scores[p]] : p \in 1..Min(n, Len(sorted_scores))}
        rows == SelectSeq([i \in 1..Len(movies) |-> i],
                          LAMBDA i : movies[i].movieId \in top_movie_ids)
    IN IF user_ratings = {} THEN [raised |-> FALSE, recs |-> <<>>]
       ELSE IF seeds # {} /\ corr_matrix.scalar THEN [raised |-> TRUE, recs |-> <<>>]
       ELSE [raised |-> FALSE, recs |-> [p \in 1..Len(rows) |-> movies[rows[p]].title]]

\* ------------------------------------------------------------------ HybridRecommender
\* The weights passed to add_scores, in tenths.
W_CONTENT == 12
W_COLLAB == 10
W_POP == 4

\* Fused scores are kept as integers: score * 10 * RankScale, where every
\* rank a list of 2n titles can hold divides RankScale.
RankScale == Factorial(2 * (MaxN + 1))

\* Mutant: the rank is taken one too high (weight / (i + 2) for enumerate's i).
AddScores_RankOff(recs, weight, title) ==
    LET at == {i \in 1..Len(recs) : recs[i] = title}
    IN SumOver(at, [i \in at |-> (weight * RankScale) \div (i + 1)])

\* add_scores(recs, weight): what the list adds to the score of title.
AddScores(recs, weight, title) ==
    LET at == {i \in 1..Len(recs) : recs[i] = title}
    IN SumOver(at, [i \in at |-> (weight * RankScale) \div i])

RECURSIVE Dedup(_)
Dedup(s) ==
    IF s = <<>> THEN <<>>
    ELSE LET front == Dedup(SubSeq(s, 1, Len(s) - 1))
         IN IF s[Len(s)] \in Range(front) THEN front ELSE Append(front, s[Len(s)])

\* Mutant: every (title, score) pair is kept as an entry of its own.
CandidateKeys_NoMerge(content_recs, collab_recs, pop_recs) ==
    content_recs \o collab_recs \o pop_recs

\* The keys of all_candidates in insertion order: a title met in a second
\* list updates its entry and adds no key.
CandidateKeys(content_recs, collab_recs, pop_recs) ==
    Dedup(content_recs \o collab_recs \o pop_recs)

\* all_candidates as a function of the title.
FusedScores(content_recs, collab_recs, pop_recs) ==
    [t \in Range(content_recs) \cup Range(collab_recs) \cup Range(pop_recs) |->
        AddScores(content_recs, W_CONTENT, t) + AddScores(collab_recs, W_COLLAB, t)
          + AddScores(pop_recs, W_POP, t)]

\* Mutant: the candidates stay in the insertion order of the dict.
SortedCandidates_Unsorted(keys, scores) == {keys}

\* The orders sorted(all_candidates.items(), key=score, reverse=True) can
\* give: descending in the fused score.  Scores that are equal as rationals
\* may differ in their last float bit, so tied keys come in any order.
SortedCandidates(keys, scores) ==
    LET P == 1..Len(keys)
    IN {[p \in P |-> keys[o[p]]] : o \in SortedOrders(P, [i \in P |-> 0 - scores[keys[i]]])}

\* Mutant: the input titles are not dropped.
HybridSelect_NoFilter(sorted_candidates, titles, n) == LoopTake(sorted_candidates, n)

\* Mutant: the loop leaves on len > n.
HybridSelect_OneMore(sorted_candidates, titles, n) ==
    LoopTake(SelectSeq(sorted_candidates, LAMBDA t : t \notin Range(titles)), n + 1)

\* Mutant: the loop tests len >= n before it appends.
HybridSelect_OneLess(sorted_candidates, titles, n) ==
    Head_n(SelectSeq(sorted_candidates, LAMBDA t : t \notin Range(titles)), n - 1)

\* Step 3 of recommend: drop the input titles, keep the first n.
HybridSelect(sorted_candidates, titles, n) ==
    LoopTake(SelectSeq(sorted_candidates, LAMBDA t : t \notin Range(titles)), n)

\* ------------------------------------------------------------------ state
VARIABLES
    movies_df,          \* the catalog
    ratings_df,         \* the rating table
    popularity_df,      \* PopularityRecommender.popularity_df after training
    content_df,         \* ContentBasedRecommender.movies_df
    cosine_sim,         \* ContentBasedRecommender.cosine_sim
    indices,            \* ContentBasedRecommender.indices
    movie_ids,          \* CollaborativeRecommender.movie_user_matrix.index
    corr_matrix,        \* CollaborativeRecommender.corr_matrix
    pop_model,          \* HybridRecommender.pop_model: "model" or "None"
    pc,                 \* "idle", or "done" once a recommend call has returned or raised
    op,                 \* the recommender called
    arg_titles, arg_user, arg_n,
    content_recs, collab_recs, pop_recs,
    all_candidates, sorted_candidates,
    weights,            \* the weights the call passed to add_scores
    result,             \* the list returned
    raised,             \* the call ended in an exception
    pop_prev,           \* the previous PopularityRecommender.recommend call
    calls,              \* the recommend calls in flight, one per request thread
    explore             \* the locals of explore_page and what it renders

trained == <<movies_df, ratings_df, content_df, cosine_sim, indices, movie_ids, corr_matrix,
            pop_model>>

locals == <<content_recs, collab_recs, pop_recs, all_candidates, sorted_candidates, weights>>

vars == <<trained, popularity_df, pc, op, arg_titles, arg_user, arg_n, locals, result, raised,
          pop_prev, calls, explore>>

\* The request threads of the server.
Threads == {1, 2}

\* A thread that is in no recommend call.
IdleCall ==
    [pc |-> "idle", op |-> "none", titles |-> <<>>, user |-> 0, n |-> 0, stage |-> 0,
     content_recs |-> <<>>, collab_recs |-> <<>>, pop_recs |-> <<>>,
     result |-> <<>>, raised |-> FALSE]

NoCalls == [t \in Threads |-> IdleCall]

NoCall == [n |-> 0, result |-> <<>>, table |-> <<>>]

\* A form field that was not sent, or was sent empty.
Absent == [given |-> FALSE, v |-> 0]

\* A form field that holds the digits of x.
Given(x) == [given |-> TRUE, v |-> x]

\* No explore request is being served.
NoExplore ==
    [pc |-> "none", filter_genre |-> "", filter_min_year |-> Absent,
     filter_min_rating |-> Absent, popular |-> <<>>, raw_recs |-> <<>>,
     recommendations |-> <<>>, error |-> "None"]

Idle ==
    /\ pc = "idle" /\ op = "none"
    /\ arg_titles = <<>> /\ arg_user = 0 /\ arg_n = 0
    /\ content_recs = <<>> /\ collab_recs = <<>> /\ pop_recs = <<>>
    /\ all_candidates = <<>> /\ sorted_candidates = <<>> /\ weights = <<>>
    /\ result = <<>> /\ raised = FALSE
    /\ calls = NoCalls
    /\ explore = NoExplore

\* The state app.py reaches when every model was constructed: a catalog, a
\* rating table in which both raters have a rating (TruncatedSVD is fitted
\* with n_components = 1), and the four trained recommenders.
TrainedOn(movies, ratings, popmodel) ==
    /\ movies_df = movies
    /\ ratings_df = ratings
    /\ NComponents(ratings_df) >= 1
    /\ popularity_df \in PopTrainOutcomes(movies_df, ratings_df)
    /\ content_df = ContentFrame(movies_df)
    /\ cosine_sim = CosineSim(movies_df)
    /\ indices = TitleIndex(movies_df)
    /\ movie_ids = PivotIndex(ratings_df)
    /\ corr_matrix = CorrMatrix(ratings_df)
    /\ pop_model = popmodel
    /\ pop_prev = NoCall

Trained(popmodel, sizes) ==
    \E K \in sizes : \E g \in 1..K : \E a \in 0..K : \E b \in a..K : \E c \in {1, K} :
        /\ b >= 1
        /\ TrainedOn(Catalog(K, g), RatingTable(K, a, b, c), popmodel)

Init == Trained("model", 1..MaxMovies) /\ Idle

\* corr_matrix before CollaborativeRecommender is trained.
NoCorr == [scalar |-> FALSE, m |-> <<>>, noise |-> <<>>]

\* The tables are loaded and no recommender is constructed yet.
Untrained ==
    /\ popularity_df = <<>> /\ content_df = <<>> /\ cosine_sim = <<>> /\ indices = <<>>
    /\ movie_ids = <<>> /\ corr_matrix = NoCorr
    /\ pop_model = "None" /\ pop_prev = NoCall
    /\ pc = "new" /\ op = "none"
    /\ arg_titles = <<>> /\ arg_user = 0 /\ arg_n = 0
    /\ content_recs = <<>> /\ collab_recs = <<>> /\ pop_recs = <<>>
    /\ all_candidates = <<>> /\ sorted_candidates = <<>> /\ weights = <<>>
    /\ result = <<>> /\ raised = FALSE
    /\ calls = NoCalls
    /\ explore = NoExplore

\* The rating tables a recommender may be constructed on: those of
\* RatingTable, also with a user (or both) without a row, and ForeignRatings.
TrainTables(K) ==
    {RatingTable(K, a, b, c) : a \in 0..K, b \in 0..K, c \in {1, K, K + 1}}
      \cup {ForeignRatings}

InitPopTrain ==
    \E K \in 1..MaxMovies : \E t \in TrainTables(K) :
        /\ movies_df = Catalog(K, 1)
        /\ ratings_df = t
        /\ Untrained

\* The seed lists of a request: titles of the catalog and a title that is
\* not in it, repeats allowed.  No step of recommend depends on the order of
\* the seeds, so one order of each list is enough.
SeedListsUpTo(len) ==
    LET name(i) == IF i = 0 THEN UnknownTitle ELSE movies_df[i].title
        rows == UNION {[1..k -> 0..Len(movies_df)] : k \in 0..len}
        sorted == {s \in rows : \A p \in 1..(Len(s) - 1) : s[p] <= s[p + 1]}
    IN {[p \in 1..Len(s) |-> name(s[p])] : s \in sorted}

SeedLists == SeedListsUpTo(MaxSeeds)

\* The tables of RatingBlocks on which the two singular values differ.
BlockTables(K) ==
    {t \in {RatingBlocks(K, a, b) : a \in 0..K, b \in 1..(K - 1)} :
        ColumnNorm2(t, 1) # ColumnNorm2(t, 2) + ColumnNorm2(t, 3)}

InitCollab ==
    \E K \in 1..MaxMovies : \E t \in TrainTables(K) \cup BlockTables(K) :
        /\ movies_df = Catalog(K, 1)
        /\ ratings_df = t
        /\ Untrained

\* Catalogs with and without genres, for the content recommender alone.
InitContent ==
    \E K \in 1..MaxMovies : \E g \in 0..K : \E d \in g..K :
        /\ movies_df = CatalogWithBlanks(K, g, d)
        /\ ratings_df = RatingTable(K, 0, K, 1)
        /\ Untrained

\* pop_model = PopularityRecommender(movies_df, ratings_df)
ConstructPopularity ==
    LET out == PopularityTrain(movies_df, ratings_df)
    IN /\ pc = "new"
       /\ pc' = IF out.raised THEN "failed" ELSE "idle"
       /\ raised' = out.raised
       /\ popularity_df' \in (IF out.raised THEN {<<>>} ELSE out.tables)
       /\ pop_model' = IF out.raised THEN "None" ELSE "model"
       /\ UNCHANGED <<movies_df, ratings_df, content_df, cosine_sim, indices, movie_ids, corr_matrix,
                      op, arg_titles, arg_user, arg_n, locals, result, pop_prev, calls, explore>>

\* content_model = ContentBasedRecommender(movies_df)
ConstructContent ==
    LET out == ContentTrain(movies_df)
    IN /\ pc = "new"
       /\ pc' = IF out.raised THEN "failed" ELSE "idle"
       /\ raised' = out.raised
       /\ movies_df' = CallerFrameAfterContentTrain(movies_df)
       /\ content_df' = IF out.raised THEN <<>> ELSE out.movies_df
       /\ cosine_sim' = IF out.raised THEN <<>> ELSE out.cosine_sim
       /\ indices' = IF out.raised THEN <<>> ELSE out.indices
       /\ UNCHANGED <<ratings_df, popularity_df, movie_ids, corr_matrix, pop_model,
                      op, arg_titles, arg_user, arg_n, locals, result, pop_prev, calls, explore>>

\* ContentBasedRecommender.recommend(titles, n)
ContentRecommendCall(titles, n) ==
    /\ pc = "idle"
    /\ pc' = "done" /\ op' = "content"
    /\ arg_titles' = titles /\ arg_n' = n
    /\ result' = ContentRecommend(content_df, cosine_sim, indices, titles, n)
    /\ raised' = ContentRaises(content_df, indices, titles)
    /\ UNCHANGED <<trained, popularity_df, arg_user, locals, pop_prev, calls, explore>>

\* collab_model = CollaborativeRecommender(movies_df, ratings_df)
ConstructCollaborative ==
    LET out == CollaborativeTrain(ratings_df)
    IN /\ pc = "new"
       /\ pc' = IF out.raised THEN "failed" ELSE "idle"
       /\ raised' = out.raised
       /\ movie_ids' = IF out.raised THEN <<>> ELSE out.movie_ids
       /\ corr_matrix' \in (IF out.raised THEN {NoCorr} ELSE out.corrs)
       /\ UNCHANGED <<movies_df, ratings_df, popularity_df, content_df, cosine_sim, indices,
                      pop_model,
                      op, arg_titles, arg_user, arg_n, locals, result, pop_prev, calls, explore>>

\* CollaborativeRecommender.recommend(user_id, n)
CollabRecommendCall(user_id, n) ==
    LET out == CollaborativeRecommend(movies_df, ratings_df, movie_ids, corr_matrix, user_id, n)
    IN /\ pc = "idle"
       /\ pc' = "done" /\ op' = "collaborative"
       /\ arg_user' = user_id /\ arg_n' = n
       /\ result' = out.recs
       /\ raised' = out.raised
       /\ UNCHANGED <<trained, popularity_df, arg_titles, locals, pop_prev, calls, explore>>

\* PopularityRecommender.recommend(n)
PopRecommendCall(n) ==
    /\ pc = "idle"
    /\ pc' = "done" /\ op' = "popularity"
    /\ arg_n' = n
    /\ result' = PopularityRecommend(popularity_df, n)
    /\ popularity_df' = PopTableAfterRecommend(popularity_df, n)
    /\ raised' = FALSE
    /\ UNCHANGED <<trained, arg_titles, arg_user, locals, pop_prev, calls, explore>>

\* HybridRecommender.recommend(titles, user_id, n)
HybridRecommendCall(titles, user_id, n) ==
    LET content == ContentRecommend(content_df, cosine_sim, indices, titles, n * 2)
        collab == CollaborativeRecommend(movies_df, ratings_df, movie_ids, corr_matrix,
                                         user_id, n * 2)
        pop == PopularityRecommend(popularity_df, n * 2)
        fails == \/ ContentRaises(content_df, indices, titles)
                 \/ collab.raised \/ pop_model = "None"
    IN /\ pc = "idle"
       /\ pc' = "done" /\ op' = "hybrid"
       /\ arg_titles' = titles /\ arg_user' = user_id /\ arg_n' = n
       /\ raised' = fails
       /\ content_recs' = content
       /\ collab_recs' = IF collab.raised THEN <<>> ELSE collab.recs
       /\ pop_recs' = IF fails THEN <<>> ELSE pop
       /\ IF fails
          THEN /\ all_candidates' = <<>> /\ sorted_candidates' = <<>>
               /\ weights' = <<>> /\ result' = <<>>
          ELSE /\ all_candidates' = FusedScores(content, collab.recs, pop)
               /\ weights' = <<W_CONTENT, W_COLLAB, W_POP>>
               /\ sorted_candidates' \in
                    SortedCandidates(CandidateKeys(content, collab.recs, pop),
                                     FusedScores(content, collab.recs, pop))
               /\ result' = HybridSelect(sorted_candidates', titles, n)
       /\ UNCHANGED <<trained, popularity_df, pop_prev, calls>>

\* The call is over: its locals are gone; the engine waits for the next one.
Return ==
    /\ pc = "done"
    /\ pc' = "idle" /\ op' = "none"
    /\ arg_titles' = <<>> /\ arg_user' = 0 /\ arg_n' = 0
    /\ content_recs' = <<>> /\ collab_recs' = <<>> /\ pop_recs' = <<>>
    /\ all_candidates' = <<>> /\ sorted_candidates' = <<>> /\ weights' = <<>>
    /\ result' = <<>> /\ raised' = FALSE
    /\ pop_prev' = IF op = "popularity"
                   THEN [n |-> arg_n, result |-> result, table |-> popularity_df]
                   ELSE pop_prev
    /\ explore' = NoExplore
    /\ UNCHANGED <<trained, popularity_df, calls>>

\* ---- explore_page (POST)
\* candidate_pool_size with and without a filter.
CandidatePoolFiltered == 50
CandidatePoolPlain == 5

\* The filter loop stops after this many matches; the fallback shows this
\* many raw results.
ShownMax == 5

\* pop_model.recommend(n=6) for the default view.
PopularShown == 6

CandidatePoolSize(filter_genre, filter_min_year, filter_min_rating) ==
    IF filter_genre # "" \/ filter_min_year.given \/ filter_min_rating.given
    THEN CandidatePoolFiltered ELSE CandidatePoolPlain

\* movies_df[movies_df['title'] == title].iloc[0]
MovieRow(movies, title) == movies[CHOOSE i \in 1..Len(movies) : movies[i].title = title]

\* The three checks of the filter loop: a title is skipped (continue) when
\* the genre filter is not part of its genre (one-word genres: is not its
\* genre), when int(year) < int(min_year), or when avg_rating < min_rating.
\* int(NaN) raises, the except clause passes, and the title is kept.
KeptByFilters(row, filter_genre, filter_min_year, filter_min_rating) ==
    /\ ~(filter_genre # "" /\ filter_genre # "All" /\ filter_genre # row.genre)
    /\ ~(filter_min_year.given /\ ~row.year.nan /\ row.year.v < filter_min_year.v)
    /\ ~(filter_min_rating.given /\ row.avg_rating < filter_min_rating.v)

\* filtered_recs after the loop: the kept titles in order, the loop leaving
\* once it has ShownMax of them.
FilteredRecs(movies, raw_recs, filter_genre, filter_min_year, filter_min_rating) ==
    LoopTake(SelectSeq(raw_recs,
                       LAMBDA t : KeptByFilters(MovieRow(movies, t), filter_genre,
                                                filter_min_year, filter_min_rating)),
             ShownMax)

\* What the handler renders for the list hybrid_model.recommend returned
\* (one entry per title of filtered_recs, from TMDB or from the catalog row).
ExploreOutcome(raw_recs, hybrid_raised, filter_genre, filter_min_year, filter_min_rating) ==
    LET filtered_recs == FilteredRecs(movies_df, raw_recs, filter_genre, filter_min_year,
                                      filter_min_rating)
        base == [pc |-> "done", filter_genre |-> filter_genre,
                 filter_min_year |-> filter_min_year, filter_min_rating |-> filter_min_rating,
                 popular |-> IF pop_model = "model"
                             THEN PopularityRecommend(popularity_df, PopularShown) ELSE <<>>,
                 raw_recs |-> raw_recs, recommendations |-> <<>>, error |-> "None"]
    IN IF hybrid_raised
       THEN [base EXCEPT !.raw_recs = <<>>, !.error = "Error"]
       ELSE IF filtered_recs = <<>> /\ raw_recs # <<>>
       THEN [base EXCEPT !.recommendations = Head_n(raw_recs, ShownMax),
                         !.error = "No movies matched your strict filters. Showing unmatched recommendations."]
       ELSE IF filtered_recs = <<>>
       THEN [base EXCEPT !.error = "No recommendations found."]
       ELSE [base EXCEPT !.recommendations = filtered_recs]

\* POST /explore with the form fields selected_movies, genre, min_year and
\* min_rating, as the user current_user_id.
ExplorePost(selected_movies, current_user_id, filter_genre, filter_min_year, filter_min_rating) ==
    IF selected_movies = <<>>
    THEN /\ pc = "idle"
         /\ pc' = "done" /\ op' = "explore"
         /\ explore' = [ExploreOutcome(<<>>, FALSE, filter_genre, filter_min_year,
                                       filter_min_rating)
                           EXCEPT !.error = "Please select at least one movie."]
         /\ UNCHANGED <<trained, popularity_df, arg_titles, arg_user, arg_n, locals, result,
                        raised, pop_prev, calls>>
    ELSE /\ HybridRecommendCall(selected_movies, current_user_id,
                                CandidatePoolSize(filter_genre, filter_min_year,
                                                  filter_min_rating))
         /\ explore' = ExploreOutcome(result', raised', filter_genre, filter_min_year,
                                      filter_min_rating)

HybridRequestUpTo(maxn) ==
    \E titles \in SeedLists : \E user_id \in Requesters : \E n \in 1..maxn :
        HybridRecommendCall(titles, user_id, n) /\ UNCHANGED explore

HybridRequest == HybridRequestUpTo(MaxN)

PopRequest == \E n \in 1..MaxN : PopRecommendCall(n)

Next == HybridRequest \/ Return

Spec == Init /\ [][Next]_vars

\* Requests to the popularity recommender alone.
NextPop == PopRequest \/ Return

SpecPop == Init /\ [][NextPop]_vars

\* The popularity recommender constructed on any of the tables, then queried.
NextPopTrain == ConstructPopularity \/ PopRequest \/ Return

SpecPopTrain == InitPopTrain /\ [][NextPopTrain]_vars

ContentRequest ==
    \E titles \in SeedListsUpTo(MaxSeeds + 1) : \E n \in 1..MaxN :
        ContentRecommendCall(titles, n)

\* The content recommender constructed on any of the catalogs, then queried.
NextContent == ConstructContent \/ ContentRequest \/ Return

SpecContent == InitContent /\ [][NextContent]_vars

\* The content recommender constructed on a catalog frame under any of the
\* row labellings, then queried.
InitLabels ==
    \E K \in 1..MaxMovies : \E g \in 0..K : \E labels \in Labellings(K) :
        /\ movies_df = Relabel(Catalog(K, g), labels)
        /\ ratings_df = RatingTable(K, 0, K, 1)
        /\ Untrained

SpecLabels == InitLabels /\ [][NextContent]_vars

\* The three constructors app.py calls on the tables it loaded.
NextConstruct == ConstructPopularity \/ ConstructContent \/ ConstructCollaborative

SpecConstruct == InitPopTrain /\ [][NextConstruct]_vars

CollabRequest ==
    \E user_id \in Requesters : \E n \in 1..MaxN : CollabRecommendCall(user_id, n)

\* The collaborative recommender constructed on any of the tables, then
\* queried.
NextCollab == ConstructCollaborative \/ CollabRequest \/ Return

SpecCollab == InitCollab /\ [][NextCollab]_vars

\* ---- recommend calls of concurrent request threads, one step per
\* sub-recommender call.  The calls a thread makes:
ThreadCalls ==
    LET seeds == {<<>>, <<movies_df[1].title>>}
        users == Requesters
    IN {[op |-> "hybrid", titles |-> ts, user |-> u, n |-> MaxN] : ts \in seeds, u \in users}
         \cup {[op |-> "content", titles |-> ts, user |-> 0, n |-> MaxN] : ts \in seeds}
         \cup {[op |-> "collaborative", titles |-> <<>>, user |-> u, n |-> MaxN] : u \in users}
         \cup {[op |-> "popularity", titles |-> <<>>, user |-> 0, n |-> MaxN]}

\* What a step of thread t leaves alone when it ends with the call record c.
ThreadFrame(t, c) ==
    /\ calls' = [calls EXCEPT ![t] = c]
    /\ UNCHANGED <<trained, pc, op, arg_titles, arg_user, arg_n, locals, result, raised, pop_prev,
                   explore>>

\* The pool size a sub-recommender is asked for: n * 2 inside hybrid.
PoolSize(c) == IF c.op = "hybrid" THEN c.n * 2 ELSE c.n

T_Begin(t) ==
    \E c \in ThreadCalls :
        /\ pc = "idle" /\ calls[t].pc = "idle"
        /\ ThreadFrame(t, [IdleCall EXCEPT !.pc = "run", !.op = c.op, !.titles = c.titles,
                                            !.user = c.user, !.n = c.n])
        /\ UNCHANGED popularity_df

\* content_model.recommend(titles, n)
T_Content(t) ==
    LET c == calls[t]
        recs == ContentRecommend(content_df, cosine_sim, indices, c.titles, PoolSize(c))
    IN /\ c.pc = "run"
       /\ (c.op = "hybrid" /\ c.stage = 0) \/ c.op = "content"
       /\ ThreadFrame(t, IF ContentRaises(content_df, indices, c.titles)
                          THEN [c EXCEPT !.pc = "done", !.raised = TRUE]
                          ELSE IF c.op = "content"
                          THEN [c EXCEPT !.pc = "done", !.result = recs]
                          ELSE [c EXCEPT !.stage = 1, !.content_recs = recs])
       /\ UNCHANGED popularity_df

\* collab_model.recommend(user_id, n)
T_Collab(t) ==
    LET c == calls[t]
        out == CollaborativeRecommend(movies_df, ratings_df, movie_ids, corr_matrix,
                                      c.user, PoolSize(c))
    IN /\ c.pc = "run"
       /\ (c.op = "hybrid" /\ c.stage = 1) \/ c.op = "collaborative"
       /\ ThreadFrame(t, IF out.raised THEN [c EXCEPT !.pc = "done", !.raised = TRUE]
                          ELSE IF c.op = "collaborative"
                          THEN [c EXCEPT !.pc = "done", !.result = out.recs]
                          ELSE [c EXCEPT !.stage = 2, !.collab_recs = out.recs])
       /\ UNCHANGED popularity_df

\* pop_model.recommend(n)
T_Pop(t) ==
    LET c == calls[t]
        recs == PopularityRecommend(popularity_df, PoolSize(c))
    IN /\ c.pc = "run"
       /\ (c.op = "hybrid" /\ c.stage = 2) \/ c.op = "popularity"
       /\ ThreadFrame(t, IF c.op = "popularity"
                          THEN [c EXCEPT !.pc = "done", !.result = recs]
                          ELSE [c EXCEPT !.stage = 3, !.pop_recs = recs])
       /\ popularity_df' = PopTableAfterRecommend(popularity_df, PoolSize(c))

\* add_scores, sorted and the selection loop of HybridRecommender.recommend
T_Fuse(t) ==
    LET c == calls[t]
    IN /\ c.pc = "run" /\ c.op = "hybrid" /\ c.stage = 3
       /\ \E sc \in SortedCandidates(CandidateKeys(c.content_recs, c.collab_recs, c.pop_recs),
                                       FusedScores(c.content_recs, c.collab_recs, c.pop_recs)) :
              ThreadFrame(t, [c EXCEPT !.pc = "done", !.result = HybridSelect(sc, c.titles, c.n)])
       /\ UNCHANGED popularity_df

\* The call returns; its locals are gone.
T_Return(t) ==
    /\ calls[t].pc = "done"
    /\ ThreadFrame(t, IdleCall)
    /\ UNCHANGED popularity_df

ThreadBegin == \E t \in Threads : T_Begin(t)

ThreadContent == \E t \in Threads : T_Content(t)

ThreadCollab == \E t \in Threads : T_Collab(t)

ThreadPop == \E t \in Threads : T_Pop(t)

ThreadFuse == \E t \in Threads : T_Fuse(t)

ThreadReturn == \E t \in Threads : T_Return(t)

NextThreads ==
    ThreadBegin \/ ThreadContent \/ ThreadCollab \/ ThreadPop \/ ThreadFuse \/ ThreadReturn

\* The engine of the largest catalog, serving two request threads.
InitThreads == Init /\ movies_df = Catalog(MaxMovies, 1)

SpecThreads == InitThreads /\ [][NextThreads]_vars

\* The engine on a catalog one row longer and asked for one title more: the
\* smallest requests in which a genre can take more than max(2, n // 2) slots.
InitWide == Trained("model", {MaxMovies + 1}) /\ Idle

HybridRequestWide == HybridRequestUpTo(MaxN + 1)

NextWide == HybridRequestWide \/ Return

SpecWide == InitWide /\ [][NextWide]_vars

\* A HybridRecommender constructed with popularity_model = None.
InitMissing == Trained("None", 1..MaxMovies) /\ Idle

SpecMissing == InitMissing /\ [][Next]_vars

\* The wide engine on the catalog with one Action title: three Drama titles
\* can be candidates of one request.
InitBackfill == InitWide /\ movies_df = Catalog(MaxMovies + 1, 1)

\* Requests for MaxN + 1 titles, the smallest size at which the genre cap
\* max(2, n // 2) is below n.
HybridRequestBackfill ==
    \E titles \in SeedLists : \E user_id \in Requesters :
        HybridRecommendCall(titles, user_id, MaxN + 1) /\ UNCHANGED explore

NextBackfill == HybridRequestBackfill \/ Return

SpecBackfill == InitBackfill /\ [][NextBackfill]_vars

\* The catalog of the explore requests: long enough for more than ShownMax
\* candidates next to a seed.
ExploreMovies == 2 * MaxMovies + 1

\* The year column: the first y rows are of 2015, the others of 1995, and
\* row z has N/A.
YearColumns(K) ==
    {[i \in 1..K |-> IF i = z THEN [nan |-> TRUE, v |-> 0]
                     ELSE [nan |-> FALSE, v |-> IF i <= y THEN 2015 ELSE 1995]] :
        y \in {0, MaxMovies, K}, z \in {0, MaxMovies}}

WithYears(movies, years) == [i \in 1..Len(movies) |-> [movies[i] EXCEPT !.year = years[i]]]

InitExplore ==
    \E years \in YearColumns(ExploreMovies) : \E a \in {0, 2} : \E b \in {MaxMovies, ExploreMovies} :
        /\ TrainedOn(WithYears(Catalog(ExploreMovies, 2), years),
                     RatingTable(ExploreMovies, a, b, ExploreMovies), "model")
        /\ Idle

ExploreRequest ==
    \E selected_movies \in {<<>>, <<movies_df[1].title>>, <<UnknownTitle>>} :
    \E current_user_id \in Requesters :
    \E filter_genre \in {"", "All", "Drama"} :
    \E filter_min_year \in {Absent, Given(2010)} :
    \E filter_min_rating \in {Absent, Given(40)} :
        ExplorePost(selected_movies, current_user_id, filter_genre, filter_min_year,
                    filter_min_rating)

NextExplore == ExploreRequest \/ Return

SpecExplore == InitExplore /\ [][NextExplore]_vars

\* ------------------------------------------------------------------ properties
HybridDone == pc = "done" /\ op = "hybrid"

HybridReturned == HybridDone /\ ~raised

CatalogTitles == {movies_df[i].title : i \in 1..Len(movies_df)}

\* Number of rows of the rating table that carry the user's id.
RatingCount(user_id) ==
    IF user_id \in DOMAIN ratings_df
    THEN Cardinality({mid \in DOMAIN ratings_df[user_id] : ratings_df[user_id][mid] # 0})
    ELSE 0

\* Primary genre of a catalog title.
GenreOf(t) == movies_df[CHOOSE i \in 1..Len(movies_df) : movies_df[i].title = t].genre

\* C1: the list returned by HybridRecommender.recommend holds no title of
\* the seed list.
C1_NoSeedInResult ==
    HybridDone => \A p \in 1..Len(result) : result[p] \notin Range(arg_titles)

\* A seed title was among the fused candidates and the call returned titles.
C1_Witness ==
    /\ HybridReturned /\ result # <<>>
    /\ \E t \in Range(arg_titles) : t \in DOMAIN all_candidates

\* C2 as stated: the result is no longer than n and no longer than the
\* catalog size minus the number of seed titles.
C2_Original ==
    HybridReturned =>
        /\ Len(result) <= arg_n
        /\ Len(result) <= Len(movies_df) - Len(arg_titles)

\* C2 amended: the result is no longer than n and no longer than the number
\* of catalog titles that are not seed titles.
C2_LengthBound ==
    HybridReturned =>
        /\ Len(result) <= arg_n
        /\ Len(result) <= Cardinality(CatalogTitles \ Range(arg_titles))

\* A request with a seed outside the catalog and n above what is left: every
\* catalog title that is not a seed is returned.
C2_Witness ==
    /\ HybridReturned /\ UnknownTitle \in Range(arg_titles)
    /\ Len(result) = Cardinality(CatalogTitles \ Range(arg_titles))
    /\ 0 < Len(result) /\ Len(result) < arg_n

\* C3: the list returned by HybridRecommender.recommend holds no title twice.
C3_NoDuplicates ==
    HybridDone =>
        \A p \in 1..Len(result) : \A q \in 1..Len(result) : result[p] = result[q] => p = q

\* A returned title that two sub-recommenders both listed.
C3_Witness ==
    /\ HybridReturned
    /\ \E t \in Range(result) :
         /\ t \in Range(content_recs) \cup Range(collab_recs)
         /\ t \in Range(pop_recs)

\* The genre cap of the diversity pass.
GenreCap(n) == IF n \div 2 > 2 THEN n \div 2 ELSE 2

SameGenre(picked, t) == Cardinality({p \in 1..Len(picked) : GenreOf(picked[p]) = GenreOf(t)})

\* The diversity-first pass over a fused ranking: walk it in order, skip the
\* seeds and every title whose primary genre already fills cap slots, stop
\* at n.
RECURSIVE DiversityPass(_, _, _, _, _)
DiversityPass(cands, picked, titles, n, cap) ==
    IF cands = <<>> \/ Len(picked) >= n THEN picked
    ELSE IF Head(cands) \in Range(titles) \/ SameGenre(picked, Head(cands)) >= cap
         THEN DiversityPass(Tail(cands), picked, titles, n, cap)
         ELSE DiversityPass(Tail(cands), Append(picked, Head(cands)), titles, n, cap)

\* C4: in a result of size n no primary genre fills more than max(2, n // 2)
\* slots, unless the diversity-first pass over the fused ranking gives fewer
\* than n titles (the backfill case).
C4_GenreCap ==
    (/\ HybridReturned /\ Len(result) = arg_n
     /\ Len(DiversityPass(sorted_candidates, <<>>, arg_titles, arg_n, GenreCap(arg_n))) >= arg_n)
    => \A g \in Genres :
         Cardinality({p \in 1..Len(result) : GenreOf(result[p]) = g}) <= GenreCap(arg_n)

\* The weight regimes of the adaptive weighting, in tenths.
RegimeWeights(count) ==
    IF count >= 10 THEN <<12, 14, 3>>
    ELSE IF count >= 1 THEN <<14, 8, 4>>
    ELSE <<15, 0, 6>>

\* C5: the fusion weights follow the number of ratings of the requesting
\* user: (1.2, 1.4, 0.3) from 10 ratings, (1.4, 0.8, 0.4) for 1 to 9,
\* (1.5, 0.0, 0.6) for none.
C5_AdaptiveWeights ==
    HybridReturned => weights = RegimeWeights(RatingCount(arg_user))

\* C6: for a user without ratings every fused score is the sum of the content
\* and the popularity contribution, and every candidate is in the content or
\* in the popularity list.
C6_ColdStartNoCollab ==
    (HybridReturned /\ RatingCount(arg_user) = 0) =>
        /\ DOMAIN all_candidates = Range(content_recs) \cup Range(pop_recs)
        /\ \A t \in DOMAIN all_candidates :
             all_candidates[t] = AddScores(content_recs, W_CONTENT, t)
                                   + AddScores(pop_recs, W_POP, t)

\* A cold-start request with candidates, on a table from which a user with
\* ratings is given collaborative titles.
C6_Witness ==
    /\ HybridReturned /\ RatingCount(arg_user) = 0
    /\ content_recs # <<>> /\ pop_recs # <<>>
    /\ \E u \in Raters :
         CollaborativeRecommend(movies_df, ratings_df, movie_ids, corr_matrix, u, arg_n * 2).recs
           # <<>>

\* C7: with the popularity model missing (and the collaborative call not
\* failing), recommend raises nothing and returns a result built from the
\* content and the collaborative list.
C7_MissingModelTolerated ==
    (/\ HybridDone /\ pop_model = "None"
     /\ ~CollaborativeRecommend(movies_df, ratings_df, movie_ids, corr_matrix,
                                arg_user, arg_n * 2).raised)
    => /\ ~raised
       /\ DOMAIN all_candidates = Range(content_recs) \cup Range(collab_recs)

ColdEmptyRequest == HybridDone /\ arg_titles = <<>> /\ RatingCount(arg_user) = 0

\* C8 as stated: an empty seed list and a user without ratings give the empty
\* list and no exception.
C8_Original == ColdEmptyRequest => (~raised /\ result = <<>>)

\* C8 amended: an empty seed list and a user without ratings give no
\* exception and the first n titles of the popularity table.
C8_ColdEmptyGivesPopular ==
    ColdEmptyRequest =>
        /\ ~raised
        /\ result = [p \in 1..Min(arg_n, Len(popularity_df)) |-> popularity_df[p].title]

\* Such a request that returned titles.
C8_Witness == ColdEmptyRequest /\ ~raised /\ result # <<>>

ColdRequest == HybridDone /\ RatingCount(arg_user) = 0

\* C9 as stated: for a user without ratings recommend does not raise and the
\* result is non-empty whenever the content or the popularity list is.
C9_Original ==
    ColdRequest =>
        /\ ~raised
        /\ (content_recs # <<>> \/ pop_recs # <<>>) => result # <<>>

\* C9 amended: for a user without ratings recommend does not raise and the
\* result is non-empty whenever the content or the popularity list holds a
\* title that is not a seed.
C9_ColdNonEmpty ==
    ColdRequest =>
        /\ ~raised
        /\ (\E t \in Range(content_recs) \cup Range(pop_recs) : t \notin Range(arg_titles))
             => result # <<>>

\* A cold-start request whose popularity list holds a seed and another title.
C9_Witness ==
    /\ ColdRequest /\ ~raised /\ result # <<>>
    /\ \E t \in Range(pop_recs) : t \in Range(arg_titles)
    /\ \E t \in Range(pop_recs) : t \notin Range(arg_titles)

\* C10: a second PopularityRecommender.recommend(n) returns the list of the
\* first, and a recommend call leaves the popularity table as it was.
C10_PopIdempotent ==
    (pc = "done" /\ op = "popularity" /\ pop_prev.n # 0) =>
        /\ popularity_df = pop_prev.table
        /\ pop_prev.n = arg_n => result = pop_prev.result

\* A repeated recommend(n) that returned titles.
C10_Witness ==
    /\ pc = "done" /\ op = "popularity"
    /\ pop_prev.n = arg_n /\ result # <<>> /\ Len(popularity_df) > arg_n

PopularityDone == pc = "done" /\ op = "popularity"

\* The row of a catalog title.
RowOfTitle(t) == CHOOSE i \in 1..Len(movies_df) : movies_df[i].title = t

\* The 90th percentile of the vote counts of the rated catalog items, in
\* tenths: the counts in ascending order, interpolated linearly at position
\* 0.9 * (k - 1).
VoteCountPercentile90 ==
    LET R == RatedRows(movies_df, ratings_df)
        k == Cardinality(R)
        asc == StableOrder(R, [i \in R |-> VoteCount(ratings_df, movies_df[i].movieId)])
        cnt(j) == VoteCount(ratings_df, movies_df[asc[j]].movieId)
        lo == (9 * (k - 1)) \div 10
    IN 10 * cnt(lo + 1) + ((9 * (k - 1)) % 10) * (cnt(Min(lo + 2, k)) - cnt(lo + 1))

\* C11: every title PopularityRecommender.recommend returns belongs to an
\* item whose vote_count is at least the 90th percentile m of the vote counts;
\* an item below m is never returned.
C11_AboveThreshold ==
    PopularityDone =>
        \A p \in 1..Len(result) :
            10 * VoteCount(ratings_df, movies_df[RowOfTitle(result[p])].movieId)
                >= VoteCountPercentile90

\* A call that returned titles while a rated item below the threshold has a
\* higher average rating than every returned item.
C11_Witness ==
    /\ PopularityDone /\ result # <<>>
    /\ \E j \in RatedRows(movies_df, ratings_df) :
         /\ 10 * VoteCount(ratings_df, movies_df[j].movieId) < VoteCountPercentile90
         /\ \A p \in 1..Len(result) :
              LET i == RowOfTitle(result[p]) IN
              VoteSum(ratings_df, movies_df[j].movieId) * VoteCount(ratings_df, movies_df[i].movieId)
                > VoteSum(ratings_df, movies_df[i].movieId) * VoteCount(ratings_df, movies_df[j].movieId)

\* C12: recommend(n) returns the first min(n, number of qualified items)
\* qualified titles in descending score, items of equal score in the order of
\* the catalog.
C12_StableDescending ==
    PopularityDone =>
        LET Q == Qualified(movies_df, ratings_df)
            rk == [i \in Q |->
                     Cardinality({j \in Q : ScoreGreater(movies_df, ratings_df, j, i)})]
            ranked == StableOrder(Q, rk)
        IN result = [p \in 1..Min(arg_n, Len(ranked)) |-> movies_df[ranked[p]].title]

\* No row of the catalog has a rating: the rating table is empty or rates
\* other movies only.
NoItemRated == RatedRows(movies_df, ratings_df) = {}

ContentDone == pc = "done" /\ op = "content"

\* The seed titles that are titles of the trained catalog.
ResolvedSeeds == Range(arg_titles) \cap CatalogTitles

\* C14: ContentBasedRecommender.recommend(seed_titles, n) returns at most n
\* titles and none of the seed titles that resolve.
C14_ContentBounded ==
    ContentDone =>
        /\ Len(result) <= arg_n
        /\ \A p \in 1..Len(result) : result[p] \notin ResolvedSeeds

\* A call with a resolved seed that filled its n slots and left catalog
\* titles out.
C14_Witness ==
    /\ ContentDone /\ ResolvedSeeds # {} /\ Len(result) = arg_n
    /\ Cardinality(CatalogTitles \ ResolvedSeeds) > arg_n

\* C15: seed titles that are not in the trained catalog are dropped without
\* an exception: the result is the one of the call without them, and the
\* empty list when no seed resolves.
C15_UnknownSeedsDropped ==
    ContentDone =>
        /\ ~raised
        /\ result = ContentRecommend(content_df, cosine_sim, indices,
                                      SelectSeq(arg_titles, LAMBDA t : t \in CatalogTitles),
                                      arg_n)
        /\ ResolvedSeeds = {} => result = <<>>

\* A call with a seed that resolves and one that does not, which returned
\* titles.
C15_Witness ==
    /\ ContentDone /\ ResolvedSeeds # {} /\ UnknownTitle \in Range(arg_titles)
    /\ result # <<>>

\* C16: training a ContentBasedRecommender on a catalog whose feature soups
\* are all empty does not fail.
C16_EmptySoupTrains ==
    (\A i \in 1..Len(movies_df) : Soup(movies_df[i]) = "") => pc # "failed"

CollabDone == pc = "done" /\ op = "collaborative"

\* The movies whose correlation rows recommend adds up for the user: the
\* ones rated 4 or more, or every rated one when there is none.
HighRated(user_id) ==
    LET rated == UserRatings(ratings_df, user_id)
        liked == {mid \in rated : ratings_df[user_id][mid] >= 4}
    IN IF liked = {} THEN rated ELSE liked

\* The accumulated correlation score of a catalog title for the user.
AccumulatedScore(user_id, t) ==
    LET row(mid) == CHOOSE i \in 1..Len(movie_ids) : movie_ids[i] = mid
        seeds == {row(mid) : mid \in HighRated(user_id)}
        target == row(movies_df[RowOfTitle(t)].movieId)
    IN FSum(seeds, [s \in seeds |-> corr_matrix.m[s][target]])

\* C17: CollaborativeRecommender.recommend returns its titles in descending
\* accumulated correlation score (stated for scores that are numbers).
C17_DescendingScore ==
    (CollabDone /\ ~raised /\ NComponents(ratings_df) >= 2) =>
        \A p \in 1..Len(result) : \A q \in p..Len(result) :
            AccumulatedScore(arg_user, result[p]).v >= AccumulatedScore(arg_user, result[q]).v

\* C18: training a CollaborativeRecommender does not raise for any rating
\* table with at least one user.
C18_TrainingNeverRaises ==
    PivotUsers(ratings_df) # {} => pc # "failed"

\* What the call c returns when it runs alone on the trained structures.
AloneOutcomes(c) ==
    LET content == ContentRecommend(content_df, cosine_sim, indices, c.titles, PoolSize(c))
        collab == CollaborativeRecommend(movies_df, ratings_df, movie_ids, corr_matrix,
                                         c.user, PoolSize(c))
        pop == PopularityRecommend(popularity_df, PoolSize(c))
    IN IF c.op \in {"content", "hybrid"} /\ ContentRaises(content_df, indices, c.titles)
       THEN {[raised |-> TRUE, result |-> <<>>]}
       ELSE IF c.op = "content" THEN {[raised |-> FALSE, result |-> content]}
       ELSE IF c.op = "popularity" THEN {[raised |-> FALSE, result |-> pop]}
       ELSE IF c.op = "collaborative" \/ collab.raised
       THEN {[raised |-> collab.raised, result |-> collab.recs]}
       ELSE {[raised |-> FALSE, result |-> HybridSelect(sc, c.titles, c.n)] :
                sc \in SortedCandidates(CandidateKeys(content, collab.recs, pop),
                                        FusedScores(content, collab.recs, pop))}

\* C19: no step of a recommend call writes to a trained structure, and under
\* every interleaving of the calls of two threads each call returns a list it
\* returns when run alone.
C19_ReadOnlyCalls ==
    /\ [][trained' = trained /\ popularity_df' = popularity_df]_vars
    /\ [](\A t \in Threads :
            calls[t].pc = "done" =>
                [raised |-> calls[t].raised, result |-> calls[t].result]
                    \in AloneOutcomes(calls[t]))

\* A hybrid call returned titles while the other thread is inside a hybrid
\* call of its own, past its first sub-recommender.
C19_Witness ==
    \E t \in Threads : \E o \in Threads \ {t} :
        /\ calls[t].pc = "done" /\ calls[t].op = "hybrid" /\ calls[t].result # <<>>
        /\ calls[o].pc = "run" /\ calls[o].op = "hybrid" /\ calls[o].stage >= 1

\* The 1-indexed rank of a title in a list.
RankIn(recs, t) == CHOOSE i \in 1..Len(recs) : recs[i] = t

\* What a list gives a title: weight / rank, nothing when it is not listed.
Contribution(recs, weight, t) ==
    IF t \in Range(recs) THEN (weight * RankScale) \div RankIn(recs, t) ELSE 0

\* C20: the fused score of a candidate is the sum over the lists that hold
\* it of the list's weight divided by its 1-indexed rank there, and only
\* listed titles have a score.
C20_ReciprocalRankFusion ==
    HybridReturned =>
        /\ DOMAIN all_candidates
             = Range(content_recs) \cup Range(collab_recs) \cup Range(pop_recs)
        /\ \A t \in DOMAIN all_candidates :
             all_candidates[t] = Contribution(content_recs, weights[1], t)
                                   + Contribution(collab_recs, weights[2], t)
                                   + Contribution(pop_recs, weights[3], t)

\* A candidate that two lists hold at different ranks.
C20_Witness ==
    /\ HybridReturned
    /\ \E t \in Range(content_recs) \cap Range(pop_recs) :
         RankIn(content_recs, t) # RankIn(pop_recs, t)

\* The fused candidates that are not seed titles.
NonSeedCandidates == {t \in DOMAIN all_candidates : t \notin Range(arg_titles)}

\* What the diversity-first pass picks from the fused ranking of the call.
DiversityPicks ==
    DiversityPass(sorted_candidates, <<>>, arg_titles, arg_n, GenreCap(arg_n))

\* s holds titles of r, each once, in the order r has them.
InOrderOf(s, r) ==
    \E f \in [1..Len(s) -> 1..Len(r)] :
        /\ \A p \in 1..Len(s) : r[f[p]] = s[p]
        /\ \A p \in 1..(Len(s) - 1) : f[p] < f[p + 1]

C22_MonotoneInAverage ==
    \A p \in 1..Len(popularity_df) : \A q \in 1..Len(popularity_df) :
        (/\ popularity_df[p].vote_count = popularity_df[q].vote_count
         /\ popularity_df[p].vote_sum > popularity_df[q].vote_sum)
        => popularity_df[p].score_num * popularity_df[q].score_den
             >= popularity_df[q].score_num * popularity_df[p].score_den

\* Two qualified rows with the same vote_count and different averages were
\* scored, and recommend returned both titles.
C22_Witness ==
    /\ PopularityDone
    /\ \E p \in 1..Len(result) : \E q \in 1..Len(result) :
         /\ popularity_df[p].vote_count = popularity_df[q].vote_count
         /\ popularity_df[p].vote_sum > popularity_df[q].vote_sum

\* Similarity of catalog row i to the seed set, times the number of seeds
\* that resolve: one for every such seed whose soup shares a term with the
\* soup of row i.
SeedSimilarity(i) ==
    LET at == {p \in 1..Len(arg_titles) : arg_titles[p] \in CatalogTitles}
    IN SumOver(at, [p \in at |->
         IF Tokens(Soup(movies_df[RowOfTitle(arg_titles[p])])) \cap Tokens(Soup(movies_df[i])) # {}
         THEN 1 ELSE 0])

\* Position of a title in the returned list, 0 when it is not returned.
ResultRank(t) == IF t \in Range(result) THEN CHOOSE p \in 1..Len(result) : result[p] = t ELSE 0

\* C23: ContentBasedRecommender.recommend returns the non-seed items in
\* descending similarity to the seed set: when a non-seed item x is more
\* similar to the seeds than a non-seed item y and y is returned, x is
\* returned too, ahead of y.
C23_DescendingSimilarity ==
    ContentDone =>
        \A x \in 1..Len(movies_df) : \A y \in 1..Len(movies_df) :
            (/\ movies_df[x].title \notin ResolvedSeeds
             /\ movies_df[y].title \notin ResolvedSeeds
             /\ SeedSimilarity(x) > SeedSimilarity(y)
             /\ movies_df[y].title \in Range(result))
            => /\ movies_df[x].title \in Range(result)
               /\ ResultRank(movies_df[x].title) < ResultRank(movies_df[y].title)

\* A title that shares the seed's genre is returned ahead of a title that
\* shares none and stands before it in the catalog.
C23_Witness ==
    /\ ContentDone
    /\ \E x \in 1..Len(movies_df) : \E y \in 1..Len(movies_df) :
         /\ y < x
         /\ SeedSimilarity(x) > SeedSimilarity(y)
         /\ movies_df[y].title \in Range(result)
         /\ movies_df[x].title \in Range(result)
         /\ ResultRank(movies_df[x].title) < ResultRank(movies_df[y].title)

\* The titles of the catalog rows whose movieId is in the set.
TitlesOf(ids) == {movies_df[i].title : i \in {j \in 1..Len(movies_df) : movies_df[j].movieId \in ids}}

\* The movies of the pivot that are not seeds of the user.
NonSeedMovies(user_id) == Range(movie_ids) \ HighRated(user_id)

\* C24: CollaborativeRecommender.recommend takes as seeds exactly the items
\* the user rated 4 or more, or every item the user rated when there is
\* none: with n slots for all the other rated movies, the titles returned
\* are exactly those of the movies outside this seed set.  For a user
\* without ratings the result is the empty list.
C24_SeedSet ==
    CollabDone =>
        /\ RatingCount(arg_user) = 0 => (~raised /\ result = <<>>)
        /\ (~raised /\ RatingCount(arg_user) > 0
              /\ Cardinality(NonSeedMovies(arg_user)) <= arg_n)
           => Range(result) = TitlesOf(NonSeedMovies(arg_user))

\* The user rated a movie 4 or more and another one lower: the lower one is
\* no seed and is returned.
C24_Witness ==
    /\ CollabDone /\ ~raised
    /\ \E mid \in UserRatings(ratings_df, arg_user) : ratings_df[arg_user][mid] >= 4
    /\ \E mid \in UserRatings(ratings_df, arg_user) :
         /\ ratings_df[arg_user][mid] < 4
         /\ TitlesOf({mid}) \subseteq Range(result)
         /\ TitlesOf({mid}) # {}

\* C25: the list CollaborativeRecommender.recommend returns holds no title
\* of an item of the user's seed set (of any item the user rated, when the
\* user rated none 4 or more).
C25_NoSeedReturned ==
    CollabDone => Range(result) \cap TitlesOf(HighRated(arg_user)) = {}

\* The fallback case: the user rated movies, none 4 or more, and the call
\* returned movies of the other users.
C25_Witness ==
    /\ CollabDone /\ ~raised /\ result # <<>>
    /\ UserRatings(ratings_df, arg_user) # {}
    /\ \A mid \in UserRatings(ratings_df, arg_user) : ratings_df[arg_user][mid] < 4
    /\ TitlesOf(HighRated(arg_user)) # {}

\* C26: after ContentBasedRecommender training every catalog title resolves
\* to the row of the similarity matrix that was built from its own item, row
\* i for catalog item i, whatever labels the rows of the input frame carry,
\* and no recommend call changes the mapping.
C26_TitleResolvesToOwnRow ==
    /\ [](pc \in {"idle", "done"} =>
            \A i \in 1..Len(movies_df) : indices[movies_df[i].title] = i)
    /\ [][pc = "idle" => indices' = indices]_vars

\* C27: constructing the Popularity, ContentBased or Collaborative
\* recommender leaves the catalog and the rating table of the caller as they
\* were: no column added, filled or reordered.
C27_CallerTablesUnchanged ==
    [][pc = "new" => (movies_df' = movies_df /\ ratings_df' = ratings_df)]_vars

\* The content recommender was constructed: its own frame carries the
\* column content_soup and the caller's catalog does not.
C27_Witness ==
    /\ pc = "idle" /\ content_df # <<>>
    /\ \A i \in 1..Len(content_df) :
         /\ "content_soup" \in DOMAIN content_df[i]
         /\ "content_soup" \notin DOMAIN movies_df[i]

ExploreDone == explore.pc = "done"

\* A title whose catalog row meets every filter of the request: the genre
\* asked for, a release year of min_year or later, an average rating of
\* min_rating or more.
PassesFilters(t) ==
    LET row == MovieRow(movies_df, t)
    IN /\ explore.filter_genre \in {"", "All", row.genre}
       /\ explore.filter_min_year.given =>
            (~row.year.nan /\ row.year.v >= explore.filter_min_year.v)
       /\ explore.filter_min_rating.given => row.avg_rating >= explore.filter_min_rating.v

C29_ScoreOrderedPrefix ==
    HybridReturned =>
        /\ \A p \in 1..Len(result) : \A q \in p..Len(result) :
             all_candidates[result[p]] >= all_candidates[result[q]]
        /\ \A t \in NonSeedCandidates \ Range(result) : \A p \in 1..Len(result) :
             all_candidates[t] <= all_candidates[result[p]]

\* A seed with a higher fused score than the last returned title was
\* removed from the ranking, and a candidate of lower score was left out.
C29_Witness ==
    /\ HybridReturned /\ result # <<>>
    /\ \E t \in DOMAIN all_candidates \cap Range(arg_titles) :
         all_candidates[t] > all_candidates[result[Len(result)]]
    /\ \E t \in NonSeedCandidates \ Range(result) :
         all_candidates[t] < all_candidates[result[Len(result)]]

\* The rated catalog rows with the largest vote_count.
MostVoted ==
    LET R == RatedRows(movies_df, ratings_df)
    IN {i \in R : \A j \in R : VoteCount(ratings_df, movies_df[i].movieId)
                                 >= VoteCount(ratings_df, movies_df[j].movieId)}

\* C30: when a catalog item has a rating, the table PopularityRecommender
\* training leaves is not empty, every item with the maximum vote_count is in
\* it, and recommend(n) with n >= 1 returns at least one title.
C30_QualifiedNonEmpty ==
    (pc \in {"idle", "done"} /\ RatedRows(movies_df, ratings_df) # {}) =>
        /\ popularity_df # <<>>
        /\ \A i \in MostVoted :
             \E p \in 1..Len(popularity_df) : popularity_df[p].movieId = movies_df[i].movieId
        /\ PopularityDone => result # <<>>

\* recommend returned titles from a table that the threshold kept a rated
\* item out of.
C30_Witness ==
    /\ PopularityDone /\ result # <<>>
    /\ Cardinality(RatedRows(movies_df, ratings_df)) > Len(popularity_df)

====
